---- MODULE Spec2Model ----
(***************************************************************************)
(* Model of annotate.py (AP Annotator): the per-frame annotation state of  *)
(* Stack / ImageView, the Main window's open and save, and the ap.points   *)
(* file they read and write.                                               *)
(*                                                                         *)
(* A position is a pair <<x, y>>.  The containers the program keeps a      *)
(* position in (a list from createROIs or json.load, a pyqtgraph Point     *)
(* after saveROIs, a tuple in serialize) are compared by their coordinates.*)
(* A frame file path is a record [folder, num]: the folder it lies in and  *)
(* the number in its name.  An unhandled exception ends the handler it was *)
(* raised in and the event loop goes on.  The status bar, the window title *)
(* and the image pixels are not modelled; Main.open's read of              *)
(* settings.json and a cancelled folder dialog change nothing modelled.    *)
(***************************************************************************)
EXTENDS Integers, Sequences, FiniteSets, TLC

\* ------------------------------------------------------------------ bounds

\* Frames of the folder the session works on.
NFrames == 2

\* User events of one session.
MaxSteps == 5

\* Entries of an ap.points file given as input, and the files of a listing.
MaxEntries == 2

MaxFiles == 2
MaxView == 2          \* zoom/pan rectangles and level pairs the user can set
MaxStepsReopen == 6   \* events of a session of opens, saves and clicks

Folders == {"A", "B"}

\* Locations the user clicks at or drags a marker to.
ClickPos == {<<50, 60>>, <<70, 80>>}

\* Positions found in ap.points files that exist before the session.
FilePos == {<<50, 60>>, <<30, 40>>}

\* ------------------------------------------------------- values, sentinels

Unset == "unset"          \* an attribute that was never assigned

\* The content of a folder's ap.points: none, not JSON with a "rois" key (an
\* empty file included), or the list under "rois".
Absent == [kind |-> "absent", rois |-> <<>>]

Malformed == [kind |-> "malformed", rois |-> <<>>]

File(rois) == [kind |-> "rois", rois |-> rois]

\* ROI.__init__ as createROIs calls it: ROI([100 + i * 25, 100 + i * 25], False)
ROI(pos, shown) == [pos |-> pos, shown |-> shown]

DefaultPos(i) == <<100 + i * 25, 100 + i * 25>>

\* serialize with the coordinates exchanged.
serialize_transposed(r) == [pos |-> <<r.pos[2], r.pos[1]>>, shown |-> r.shown]

\* ROI.serialize()['pos']: tuple(self.pos)
serialize(r) == [pos |-> <<r.pos[1], r.pos[2]>>, shown |-> r.shown]

\* Python's list index: 0..n-1, or -n..-1 counted from the end.
PyIndex(i, n) == IF i >= 0 /\ i < n THEN i ELSE IF i < 0 /\ i >= -n THEN i + n ELSE -1

\* ----------------------------------------------------------- ImageView

\* The ViewBox state (zoom/pan rectangle) and the image item's levels: the
\* ones pyqtgraph computes from an image (auto range, auto levels), or the
\* v-th of the ones a user sets with the wheel, a drag or the histogram.
AutoRange(im) == [kind |-> "auto", folder |-> im.folder, num |-> im.num]

AutoLevels(im) == [kind |-> "auto", folder |-> im.folder, num |-> im.num]

UserView(v) == [kind |-> "user", folder |-> "", num |-> v]

\* pyqtgraph's ImageView.setImage(im), autoRange and autoLevels at their
\* default True: the view shows the whole image, the levels are its extremes.
setImage(s, im) ==
    [s EXCEPT !.im = im, !.view = AutoRange(im), !.levels = AutoLevels(im)]

\* ImageView.updateROIs: rebuild the crosshairs from self.rois, add the shown
\* ones to the scene.  s.wrois is the frame whose list self.w.rois refers to.
updateROIs(s) ==
    [s EXCEPT !.realPos = [i \in 0..1 |-> s.rois[s.wrois][i].pos],
              !.inScene = [i \in 0..1 |-> s.rois[s.wrois][i].shown]]

\* saveROIs reading realRois[0] for every point.
saveROIs_firstOnly(s) ==
    [s EXCEPT !.rois[s.wrois] =
        [i \in 0..1 |-> [s.rois[s.wrois][i] EXCEPT !.pos = s.realPos[0]]]]

\* ImageView.saveROIs: copy every crosshair's position into self.rois.
saveROIs(s) ==
    [s EXCEPT !.rois[s.wrois] =
        [i \in 0..1 |-> [s.rois[s.wrois][i] EXCEPT !.pos = s.realPos[i]]]]

\* CrosshairROI.setPos: sigRegionChanged (connected to saveROIs) is emitted
\* when the position changed.
setPos(s, i, xy) ==
    IF s.realPos[i] = xy THEN s
    ELSE saveROIs([s EXCEPT !.realPos[i] = xy])

\* ----------------------------------------------------------------- Stack

\* checkROIs putting a point it hides back at its default position.
checkROIs_reset(s) ==
    IF s.freeze THEN s
    ELSE updateROIs([s EXCEPT !.rois[s.curId] =
                        [i \in 0..1 |->
                            IF (IF i = 0 THEN s.p1 ELSE s.p2)
                            THEN [s.rois[s.curId][i] EXCEPT !.shown = TRUE]
                            ELSE ROI(DefaultPos(i), FALSE)],
                              !.wrois = s.curId])

\* checkROIs writing the flags into the first frame's list.
checkROIs_firstFrame(s) ==
    IF s.freeze THEN s
    ELSE updateROIs([s EXCEPT !.rois[0][0].shown = s.p1,
                              !.rois[0][1].shown = s.p2,
                              !.wrois = s.curId])

\* Stack.checkROIs
checkROIs(s) ==
    IF s.freeze THEN s
    ELSE updateROIs([s EXCEPT !.rois[s.curId][0].shown = s.p1,
                              !.rois[s.curId][1].shown = s.p2,
                              !.wrois = s.curId])

\* QCheckBox.setChecked on p1 (box 0) or p2 (box 1): stateChanged, connected
\* to checkROIs, is emitted when the state changed.
setChecked(s, box, v) ==
    IF box = 0
    THEN IF s.p1 = v THEN s ELSE checkROIs([s EXCEPT !.p1 = v])
    ELSE IF s.p2 = v THEN s ELSE checkROIs([s EXCEPT !.p2 = v])

\* Stack.updateCheckboxes
updateCheckboxes(s) ==
    LET s1 == [s EXCEPT !.freeze = TRUE]
        s2 == setChecked(s1, 0, s1.rois[s1.curId][0].shown)
        s3 == setChecked(s2, 1, s2.rois[s2.curId][1].shown)
    IN  [s3 EXCEPT !.freeze = FALSE]

\* mousePress checking p1 for either point.
mousePress_p1Only(s, roi_id) ==
    IF roi_id = 0 THEN setChecked(s, 0, TRUE)
    ELSE IF roi_id = 1 THEN setChecked(s, 0, TRUE)
    ELSE s

\* Stack.mousePress
mousePress(s, roi_id) ==
    IF roi_id = 0 THEN setChecked(s, 0, TRUE)
    ELSE IF roi_id = 1 THEN setChecked(s, 1, TRUE)
    ELSE s

\* changeZ without the two restoring calls at its end.
changeZ_noRestore(s) ==
    LET s1 == saveROIs(s)
        s2 == [s1 EXCEPT !.rois[s1.curId] = s1.rois[s1.wrois]]
        s3 == updateCheckboxes([s2 EXCEPT !.curId = s2.z])
        s4 == [setImage(s3, s3.files[s3.curId + 1]) EXCEPT !.wrois = s3.curId]
    IN  updateROIs(s4)

\* Stack.changeZ
changeZ(s) ==
    LET viewBoxState == s.view
        levels == s.levels
        s1 == saveROIs(s)                                  \* self.w.getROIs()
        s2 == [s1 EXCEPT !.rois[s1.curId] = s1.rois[s1.wrois]]
        s3 == updateCheckboxes([s2 EXCEPT !.curId = s2.z])
        s4 == [setImage(s3, s3.files[s3.curId + 1]) EXCEPT !.wrois = s3.curId]
        s5 == updateROIs(s4)
    IN  [s5 EXCEPT !.view = viewBoxState, !.levels = levels]

\* A slider that wraps around at its ends instead of stopping there.
setValue_wraps(s, v) ==
    LET b == v % (s.zmax + 1)
    IN  IF b = s.z THEN s ELSE changeZ([s EXCEPT !.z = b])

\* QSlider.setValue: the value is bounded to [minimum, maximum]; valueChanged,
\* connected to changeZ, is emitted when the value changed.
setValue(s, v) ==
    LET b == IF v < 0 THEN 0 ELSE IF v > s.zmax THEN s.zmax ELSE v
    IN  IF b = s.z THEN s ELSE changeZ([s EXCEPT !.z = b])

\* ImageView.mousePressEvent
mousePressEvent(s, button, xy) ==
    IF button = "Left"
    THEN LET s1 == setPos(s, 0, xy)
             s2 == [s1 EXCEPT !.rois[s1.wrois][0].shown = TRUE]
         IN  mousePress(s2, 0)
    ELSE IF button = "Right"
    THEN LET s1 == setPos(s, 1, xy)
             s2 == [s1 EXCEPT !.rois[s1.wrois][0].shown = TRUE]
         IN  mousePress(s2, 1)
    ELSE setValue(s, s.curId + 1)

\* Stack.keyPress
keyPress(s, key) ==
    IF key = "D" THEN setValue(s, s.curId + 1)
    ELSE IF key = "A" THEN setValue(s, s.curId - 1)
    ELSE IF key = "1" THEN setChecked(s, 0, ~s.p1)
    ELSE IF key = "2" THEN setChecked(s, 1, ~s.p2)
    ELSE IF key = "Q" THEN setChecked(setChecked(s, 0, TRUE), 1, TRUE)
    ELSE s

\* "Loads saved ROIs": the saved entries (rois, <<>> when there is no file)
\* laid over the defaults in file order.
RECURSIVE overlay(_, _, _)
overlay(tmp_rois, rois, n) ==
    IF rois = <<>> THEN tmp_rois
    ELSE LET r == Head(rois)
         IN  overlay([tmp_rois EXCEPT ![PyIndex(r.z, n)][PyIndex(r.id, 2)] =
                          [pos |-> r.pos, shown |-> TRUE]],
                     Tail(rois), n)

\* createROIs that never reads the saved entries.
createROIs_ignoresSaved(files, rois) ==
    [z \in 0..(Len(files) - 1) |-> [i \in 0..1 |-> ROI(DefaultPos(i), FALSE)]]

\* createROIs leaving shown at ROI's default, True.
createROIs_shownDefault(files, rois) ==
    LET tmp_rois == [z \in 0..(Len(files) - 1) |->
                        [i \in 0..1 |-> ROI(DefaultPos(i), TRUE)]]
    IN  overlay(tmp_rois, rois, Len(files))

\* Stack.createROIs
createROIs(files, rois) ==
    LET tmp_rois == [z \in 0..(Len(files) - 1) |->
                        [i \in 0..1 |-> ROI(DefaultPos(i), FALSE)]]
    IN  overlay(tmp_rois, rois, Len(files))

\* Stack.__init__ raises IndexError: in createROIs when an entry's z or id is
\* no index, or at self.files[0] when the folder holds no frame.
StackRaises(files, rois) ==
    \/ \E k \in 1..Len(rois) :
          PyIndex(rois[k].z, Len(files)) < 0 \/ PyIndex(rois[k].id, 2) < 0
    \/ Len(files) = 0

\* Stack.__init__
Stack(files, rois) ==
    LET s0 == [files |-> files, rois |-> createROIs(files, rois),
               curId |-> 0, freeze |-> FALSE, im |-> files[1], wrois |-> 0,
               realPos |-> [i \in 0..1 |-> DefaultPos(i)],
               inScene |-> [i \in 0..1 |-> FALSE],
               z |-> 0, zmax |-> Len(files) - 1,
               p1 |-> FALSE, p2 |-> FALSE,
               view |-> AutoRange(files[1]), levels |-> AutoLevels(files[1])]
    IN  checkROIs(updateCheckboxes(updateROIs(setImage(s0, files[1]))))

\* Main before the first successful open: there is no self.stack.
NoStack ==
    [files |-> <<>>, rois |-> <<>>, curId |-> 0, freeze |-> FALSE,
     im |-> [folder |-> Unset, num |-> 0], wrois |-> 0,
     realPos |-> [i \in 0..1 |-> DefaultPos(i)],
     inScene |-> [i \in 0..1 |-> FALSE],
     z |-> 0, zmax |-> 0, p1 |-> FALSE, p2 |-> FALSE,
     view |-> [kind |-> "none", folder |-> "", num |-> 0],
     levels |-> [kind |-> "none", folder |-> "", num |-> 0]]

\* ------------------------------------------------------------------ Main

VARIABLES
    dir,        \* folder -> numbers of its plain frame files, in glob's order
    seg,        \* folder -> numbers of its segmentation files, in glob's order
    pts,        \* folder -> content of its ap.points
    folder,     \* Main.folder
    fn_rois,    \* Main.fn_rois: the folder whose ap.points save writes
    files,      \* Main.files
    seg_files,  \* Main.seg_files
    stack,      \* Main.stack
    last,       \* the last event handled and the exception it ended with
    steps,      \* events the session still has to come
    snap,       \* the stack as the save just before saw it, and whether the
                \* stack's folder was opened again right after that save
    hid,        \* (frame, id) -> position the point had when it was last toggled
                \* invisible, None after a click or drag on it and after an open
    trip,       \* the frame left by a frame change, as it was left, while no
                \* click, drag, toggle or open has followed
    loaded      \* what the open that made the stack read from ap.points, while
                \* no click, drag or toggle has followed

vars == <<dir, seg, pts, folder, fn_rois, files, seg_files, stack, last, steps,
          snap, hid, trip, loaded>>

\* sorted(..., key=int(name)): a stable insertion of each number in turn.
RECURSIVE sorted(_)
sorted(s) ==
    IF s = <<>> THEN <<>>
    ELSE LET rest == sorted(SubSeq(s, 1, Len(s) - 1))
             x == s[Len(s)]
             k == Cardinality({j \in 1..Len(rest) : rest[j] <= x})
         IN  SubSeq(rest, 1, k) \o <<x>> \o SubSeq(rest, k + 1, Len(rest))

\* The check made of the first file only.
Misnumbered_firstOnly(nums) == Len(nums) > 0 /\ nums[1] # 0

\* "Check correct sorting": some name's number differs from its index.
Misnumbered(nums) == \E index \in 0..(Len(nums) - 1) : nums[index + 1] # index

Paths(f, nums) == [k \in 1..Len(nums) |-> [folder |-> f, num |-> nums[k]]]

\* The list comprehension of Main.save: frame by frame, id by id, the shown ones.
RECURSIVE dumpRois(_, _, _)
dumpRois(rois, n, k) ==
    IF k >= 2 * n THEN <<>>
    ELSE LET i == k \div 2
             j == k % 2
         IN  (IF rois[i][j].shown
              THEN <<[z |-> i, id |-> j, pos |-> serialize(rois[i][j]).pos]>>
              ELSE <<>>) \o dumpRois(rois, n, k + 1)

\* The exception Main.open(f) ends with, "none" when it reaches its end.
openError(f) ==
    IF Misnumbered(sorted(dir[f])) \/ Misnumbered(sorted(seg[f])) THEN "AssertionError"
    ELSE IF pts[f].kind = "malformed" THEN "JSONDecodeError"
    ELSE IF StackRaises(Paths(f, sorted(dir[f])), pts[f].rois) THEN "IndexError"
    ELSE "none"

\* ------------------------------------------------------------ ghost state

NoSnap == [stage |-> "none", folder |-> Unset, target |-> Unset, n |-> 0,
           rois |-> <<>>, entries |-> <<>>]

None == <<>>

NoHid(n) == [z \in 0..(n - 1) |-> [i \in 0..1 |-> None]]

NoLoad == [on |-> FALSE, kind |-> "none", rois |-> <<>>]

NoTrip == [stage |-> "none", home |-> 0, frame |-> <<>>]

NumFrames(s) == Len(s.files)

HasStack == stack.files # <<>>

\* A click or drag on point i of the current frame ends what hid tracks of it.
HidMoved(s, i) == [hid EXCEPT ![s.curId][i] = None]

\* A checkbox change: a point whose box goes unchecked is recorded with the
\* position it has.
HidToggled(s, t) ==
    [hid EXCEPT ![s.curId] =
        [i \in 0..1 |->
            LET was == IF i = 0 THEN s.p1 ELSE s.p2
                is == IF i = 0 THEN t.p1 ELSE t.p2
            IN  IF was /\ ~is THEN s.rois[s.curId][i].pos
                ELSE hid[s.curId][i]]]

\* A frame change from s to t: away from s.curId, or back at the frame left by
\* the frame change before.
TripMoved(s, t) ==
    IF s.curId = t.curId THEN trip
    ELSE IF trip.stage = "away" /\ trip.home = t.curId
    THEN [trip EXCEPT !.stage = "back"]
    ELSE [stage |-> "away", home |-> s.curId, frame |-> s.rois[s.curId]]

\* ---------------------------------------------------------------- actions

\* File > Open: QFileDialog returned folder f.
Open(f) ==
    /\ steps > 0
    /\ steps' = steps - 1
    /\ folder' = f
    /\ fn_rois' = f
    /\ files' = Paths(f, sorted(dir[f]))
    /\ seg_files' = Paths(f, sorted(seg[f]))
    /\ last' = [op |-> "open", err |-> openError(f)]
    /\ IF openError(f) = "none"
       THEN /\ stack' = Stack(Paths(f, sorted(dir[f])), pts[f].rois)
            /\ hid' = NoHid(Len(dir[f]))
            /\ trip' = NoTrip
            /\ loaded' = [on |-> TRUE, kind |-> pts[f].kind, rois |-> pts[f].rois]
       ELSE UNCHANGED <<stack, hid, trip, loaded>>
    /\ snap' = IF snap.stage = "saved" /\ snap.folder = f
               THEN [snap EXCEPT !.stage = "reopened"]
               ELSE NoSnap
    /\ UNCHANGED <<dir, seg, pts>>

\* File > Save, or Ctrl+S.  Without self.fn_rois the test of it raises
\* AttributeError; without self.stack the file is already opened for writing
\* (and so emptied) when the list comprehension raises AttributeError.
Save ==
    /\ steps > 0
    /\ steps' = steps - 1
    /\ IF fn_rois = Unset
       THEN /\ last' = [op |-> "save", err |-> "AttributeError"]
            /\ UNCHANGED pts
            /\ snap' = NoSnap
       ELSE IF ~HasStack
       THEN /\ last' = [op |-> "save", err |-> "AttributeError"]
            /\ pts' = [pts EXCEPT ![fn_rois] = Malformed]
            /\ snap' = NoSnap
       ELSE /\ last' = [op |-> "save", err |-> "none"]
            /\ pts' = [pts EXCEPT ![fn_rois] =
                          File(dumpRois(stack.rois, Len(stack.files), 0))]
            /\ snap' = [stage |-> "saved", folder |-> stack.files[1].folder,
                        target |-> fn_rois, n |-> Len(stack.files),
                        rois |-> stack.rois,
                        entries |-> dumpRois(stack.rois, Len(stack.files), 0)]
    /\ UNCHANGED <<dir, seg, folder, fn_rois, files, seg_files, stack, hid, trip,
                   loaded>>

\* An event the stack's widgets handle: the stack becomes t.
StackEvent(op, t, h, tr) ==
    /\ steps > 0
    /\ steps' = steps - 1
    /\ stack' = t
    /\ last' = [op |-> op, err |-> "none"]
    /\ hid' = h
    /\ trip' = tr
    /\ loaded' = IF op \in {"middle", "D", "A", "slider"} THEN loaded ELSE NoLoad
    /\ snap' = NoSnap
    /\ UNCHANGED <<dir, seg, pts, folder, fn_rois, files, seg_files>>

LeftClick(xy) ==
    /\ HasStack
    /\ StackEvent("left", mousePressEvent(stack, "Left", xy), HidMoved(stack, 0), NoTrip)

RightClick(xy) ==
    /\ HasStack
    /\ StackEvent("right", mousePressEvent(stack, "Right", xy), HidMoved(stack, 1), NoTrip)

MiddleClick ==
    /\ HasStack
    /\ LET t == mousePressEvent(stack, "Middle", <<0, 0>>)
       IN  StackEvent("middle", t, hid, TripMoved(stack, t))

KeyD ==
    /\ HasStack
    /\ LET t == keyPress(stack, "D")
       IN  StackEvent("D", t, hid, TripMoved(stack, t))

KeyA ==
    /\ HasStack
    /\ LET t == keyPress(stack, "A")
       IN  StackEvent("A", t, hid, TripMoved(stack, t))

Key1 ==
    /\ HasStack
    /\ LET t == keyPress(stack, "1")
       IN  StackEvent("1", t, HidToggled(stack, t), NoTrip)

Key2 ==
    /\ HasStack
    /\ LET t == keyPress(stack, "2")
       IN  StackEvent("2", t, HidToggled(stack, t), NoTrip)

KeyQ ==
    /\ HasStack
    /\ LET t == keyPress(stack, "Q")
       IN  StackEvent("Q", t, HidToggled(stack, t), NoTrip)

\* The user clicks checkbox p1 (box 0) or p2 (box 1).
ToggleBox(box) ==
    /\ HasStack
    /\ LET t == setChecked(stack, box, IF box = 0 THEN ~stack.p1 ELSE ~stack.p2)
       IN  StackEvent("box", t, HidToggled(stack, t), NoTrip)

\* The user moves the z slider to v.
SliderMove(v) ==
    /\ HasStack
    /\ v \in 0..stack.zmax
    /\ v # stack.z
    /\ LET t == setValue(stack, v)
       IN  StackEvent("slider", t, hid, TripMoved(stack, t))

\* The user drags the crosshair of point i, which is in the scene, to xy.
Drag(i, xy) ==
    /\ HasStack
    /\ stack.inScene[i]
    /\ StackEvent("drag", setPos(stack, i, xy), HidMoved(stack, i), NoTrip)

\* An event of the image view that no code of the program handles: the stack
\* changes as pyqtgraph changes it, no annotation and no file is touched.
ViewEvent(op, t) ==
    /\ steps > 0
    /\ steps' = steps - 1
    /\ stack' = t
    /\ last' = [op |-> op, err |-> "none"]
    /\ UNCHANGED <<dir, seg, pts, folder, fn_rois, files, seg_files,
                   snap, hid, trip, loaded>>

\* The user zooms or pans the view (wheel, drag in the ViewBox) to the v-th
\* rectangle.
Zoom(v) ==
    /\ HasStack
    /\ stack.view # UserView(v)
    /\ ViewEvent("zoom", [stack EXCEPT !.view = UserView(v)])

\* The user moves the histogram's region to the v-th pair of levels.
Levels(v) ==
    /\ HasStack
    /\ stack.levels # UserView(v)
    /\ ViewEvent("levels", [stack EXCEPT !.levels = UserView(v)])

\* ----------------------------------------------------------- specification

\* The session: folder A holds NFrames frames, listed out of order, and may
\* hold annotations of an earlier session; folder B holds one frame, or two
\* with a gap in the numbering, and no ap.points or a malformed one.
InitFiles ==
    /\ dir \in {[A |-> [k \in 1..NFrames |-> NFrames - k], B |-> b] :
                    b \in {<<0>>, <<0, 2>>}}
    /\ seg = [A |-> <<>>, B |-> <<0>>]
    /\ pts \in {[A |-> a, B |-> b] :
                    a \in {Absent, File(<<[z |-> 0, id |-> 1, pos |-> <<30, 40>>]>>)},
                    b \in {Absent, Malformed}}

InitMainFor(n) ==
    /\ folder = Unset
    /\ fn_rois = Unset
    /\ files = <<>>
    /\ seg_files = <<>>
    /\ stack = NoStack
    /\ last = [op |-> "init", err |-> "none"]
    /\ steps = n
    /\ snap = NoSnap
    /\ hid = NoHid(0)
    /\ trip = NoTrip
    /\ loaded = NoLoad

InitMain == InitMainFor(MaxSteps)

Init == InitFiles /\ InitMain

Next ==
    \/ \E f \in Folders : Open(f)
    \/ Save
    \/ \E xy \in ClickPos : LeftClick(xy)
    \/ \E xy \in ClickPos : RightClick(xy)
    \/ MiddleClick
    \/ KeyD
    \/ KeyA
    \/ Key1
    \/ Key2
    \/ KeyQ
    \/ \E box \in 0..1 : ToggleBox(box)
    \/ \E v \in 0..(NFrames - 1) : SliderMove(v)
    \/ \E i \in 0..1, xy \in ClickPos : Drag(i, xy)

Spec == Init /\ [][Next]_vars

\* The session seen from the image view: frames are opened and changed, a
\* point is set so that annotations are on display, and the user zooms and
\* sets levels in between.
NextView ==
    \/ \E f \in Folders : Open(f)
    \/ \E xy \in ClickPos : LeftClick(xy)
    \/ MiddleClick
    \/ KeyD
    \/ KeyA
    \/ \E v \in 0..(NFrames - 1) : SliderMove(v)
    \/ \E v \in 1..MaxView : Zoom(v)
    \/ \E v \in 1..MaxView : Levels(v)

SpecView == Init /\ [][NextView]_vars

\* The session of saving and reopening: opens, saves, and clicks as the edits.
InitReopen == InitFiles /\ InitMainFor(MaxStepsReopen)

NextReopen ==
    \/ \E f \in Folders : Open(f)
    \/ Save
    \/ \E xy \in ClickPos : LeftClick(xy)
    \/ \E xy \in ClickPos : RightClick(xy)

SpecReopen == InitReopen /\ [][NextReopen]_vars

\* The folder as an input: folder A holds any listing of up to MaxFiles files
\* numbered 0..MaxFiles with a simple ap.points, or a well-numbered listing
\* with any ap.points of up to MaxEntries entries; the folder is opened and
\* saved, nothing is edited.
SeqsUpTo(S, n) == UNION {[1..k -> S] : k \in 0..n}

Entries == [z : 0..(MaxFiles - 1), id : 0..1, pos : FilePos]

InitFilesLoad ==
    \/ \E l \in SeqsUpTo(0..MaxFiles, MaxFiles), s \in {<<>>, <<1>>},
          a \in {Absent, Malformed, File(<<[z |-> 0, id |-> 0, pos |-> <<30, 40>>]>>)} :
          /\ dir = [A |-> l, B |-> <<0>>]
          /\ seg = [A |-> s, B |-> <<0>>]
          /\ pts = [A |-> a, B |-> Absent]
    \/ \E n \in 1..MaxFiles, e \in SeqsUpTo(Entries, MaxEntries) :
          /\ dir = [A |-> [k \in 1..n |-> n - k], B |-> <<0>>]
          /\ seg = [A |-> <<>>, B |-> <<0>>]
          /\ pts = [A |-> File(e), B |-> Absent]

InitLoad == InitFilesLoad /\ InitMain

NextLoad ==
    \/ \E f \in Folders : Open(f)
    \/ Save

SpecLoad == InitLoad /\ [][NextLoad]_vars

\* ------------------------------------------------------------------ claims

CurFrame == stack.rois[stack.curId]

Box(s, i) == IF i = 0 THEN s.p1 ELSE s.p2

\* e holds one entry, with the point's position, for every shown point of
\* rois, none for a hidden one, ordered by frame and by id within a frame.
IsDumpOf(e, rois, n) ==
    /\ \A z \in 0..(n - 1), i \in 0..1 :
          LET at == {k \in 1..Len(e) : e[k].z = z /\ e[k].id = i}
          IN  IF rois[z][i].shown
              THEN /\ Cardinality(at) = 1
                   /\ \A k \in at : e[k].pos = rois[z][i].pos
              ELSE at = {}
    /\ \A k \in 1..Len(e) : e[k].z \in 0..(n - 1) /\ e[k].id \in 0..1
    /\ \A k, l \in 1..Len(e) :
          k < l => \/ e[k].z < e[l].z
                   \/ e[k].z = e[l].z /\ e[k].id < e[l].id

\* C1: a save leaves in the file it writes exactly one entry {z, id, pos} for
\* every point whose shown flag is true, no entry for a point whose shown flag
\* is false, frame by frame and id 0 before id 1 (no entry at all when there
\* is no stack).
C1_SaveWritesShownInOrder ==
    (last.op = "save" /\ fn_rois # Unset) =>
        /\ HasStack => (last.err = "none" /\ pts[fn_rois].kind = "rois")
        /\ IsDumpOf(pts[fn_rois].rois, stack.rois, Len(stack.files))

\* A save wrote an entry while a point that was moved from its default
\* position is hidden.
C1_Witness ==
    /\ last.op = "save" /\ last.err = "none"
    /\ Len(pts[fn_rois].rois) >= 1
    /\ \E z \in 0..(Len(stack.files) - 1), i \in 0..1 :
          ~stack.rois[z][i].shown /\ stack.rois[z][i].pos # DefaultPos(i)

\* C2: a left click at xy leaves point 0 of the current frame at xy, a right
\* click at xy leaves point 1 there, and either leaves that point shown and
\* its checkbox checked, whatever they were before.
C2_ClickSetsPointAndShows ==
    [][\A xy \in ClickPos :
          /\ LeftClick(xy) =>
                /\ stack'.rois[stack.curId][0] = [pos |-> xy, shown |-> TRUE]
                /\ stack'.p1 /\ stack'.curId = stack.curId
          /\ RightClick(xy) =>
                /\ stack'.rois[stack.curId][1] = [pos |-> xy, shown |-> TRUE]
                /\ stack'.p2 /\ stack'.curId = stack.curId]_vars

\* A right click has just shown point 1, at the place clicked, on a frame
\* whose point 0 is hidden.
C2_Witness ==
    /\ last.op = "right"
    /\ CurFrame[1].shown /\ CurFrame[1].pos \in ClickPos /\ stack.p2
    /\ ~stack.p1

\* C3, as claimed: after a save and then an open of the stack's folder, the
\* open has made a stack in which every point shown at the save is shown at
\* its saved position and every point hidden at the save is hidden at its
\* default position.
C3_ReopenRestoresSaved ==
    snap.stage = "reopened" =>
        /\ last.err = "none"
        /\ Len(stack.files) = snap.n
        /\ \A z \in 0..(snap.n - 1), i \in 0..1 :
              stack.rois[z][i] =
                  IF snap.rois[z][i].shown
                  THEN [pos |-> snap.rois[z][i].pos, shown |-> TRUE]
                  ELSE [pos |-> DefaultPos(i), shown |-> FALSE]

\* C7, as claimed: a save before any folder was opened ends without an error.
C7_SaveWithoutFolderSilent ==
    (last.op = "save" /\ folder = Unset) => last.err = "none"

\* C8: a point that was toggled invisible at position p and is shown again,
\* with no click or drag on it and no open since, is at p.
C8_ToggleKeepsPosition ==
    HasStack =>
        \A z \in 0..(Len(stack.files) - 1), i \in 0..1 :
            (hid[z][i] # None /\ stack.rois[z][i].shown) =>
                stack.rois[z][i].pos = hid[z][i]

\* A toggle has just shown again a point hidden at a position that is not its
\* default.
C8_Witness ==
    /\ last.op \in {"1", "2", "box"}
    /\ \E i \in 0..1 :
          /\ hid[stack.curId][i] # None
          /\ hid[stack.curId][i] # DefaultPos(i)
          /\ CurFrame[i].shown /\ Box(stack, i)

\* C9: back on frame i after a change to another frame and a change back, with
\* no click or toggle in between, both points of frame i have the positions
\* and shown flags they had when i was left, and the checkboxes show them.
C9_RoundTripKeepsFrame ==
    trip.stage = "back" =>
        /\ stack.curId = trip.home
        /\ CurFrame = trip.frame
        /\ stack.p1 = CurFrame[0].shown
        /\ stack.p2 = CurFrame[1].shown

\* Back on a frame with a shown point that is not at its default position.
C9_Witness ==
    /\ trip.stage = "back"
    /\ \E i \in 0..1 : CurFrame[i].shown /\ CurFrame[i].pos # DefaultPos(i)

FlagsOf(s) == [i \in 0..1 |-> s.rois[s.curId][i].shown]

PosOf(s) == [z \in 0..(Len(s.files) - 1) |-> [i \in 0..1 |-> s.rois[z][i].pos]]

\* C10, as claimed: key 1 inverts the shown flag of point 0 of the current
\* frame and leaves point 1's, key 2 inverts point 1's and leaves point 0's,
\* key Q leaves both true, and none of them changes a position.
C10_KeysToggleOwnFlag ==
    [][/\ Key1 => /\ FlagsOf(stack')[0] = ~FlagsOf(stack)[0]
                  /\ FlagsOf(stack')[1] = FlagsOf(stack)[1]
       /\ Key2 => /\ FlagsOf(stack')[1] = ~FlagsOf(stack)[1]
                  /\ FlagsOf(stack')[0] = FlagsOf(stack)[0]
       /\ KeyQ => FlagsOf(stack')[0] /\ FlagsOf(stack')[1]
       /\ (Key1 \/ Key2 \/ KeyQ) => PosOf(stack') = PosOf(stack)]_vars

Triples(e) == {e[k] : k \in 1..Len(e)}

\* C4, as claimed: a save with no edit since the open writes exactly the set
\* of (z, id, pos) triples the open loaded.
C4_LoadThenSaveSameSet ==
    (last.op = "save" /\ last.err = "none" /\ loaded.on) =>
        Triples(pts[fn_rois].rois) = Triples(loaded.rois)

\* No two loaded entries give one point two positions.
OnePosPerPoint(e) ==
    \A k, l \in 1..Len(e) :
        (e[k].z = e[l].z /\ e[k].id = e[l].id) => e[k].pos = e[l].pos

\* C4, amended: when no two loaded entries give the same (z, id) different
\* positions, a save with no edit since the open writes exactly the set of
\* (z, id, pos) triples the open loaded.
C4_LoadThenSaveSameSetOnePos ==
    (last.op = "save" /\ last.err = "none" /\ loaded.on
        /\ OnePosPerPoint(loaded.rois)) =>
        Triples(pts[fn_rois].rois) = Triples(loaded.rois)

\* A save right after an open that loaded two entries, the later frame first.
C4_Witness ==
    /\ last.op = "save" /\ last.err = "none" /\ loaded.on
    /\ Len(loaded.rois) = 2
    /\ loaded.rois[1].z > loaded.rois[2].z
    /\ Len(pts[fn_rois].rois) = 2

\* C5: an open of a folder of N frames with no ap.points makes N pairs, every
\* point hidden, point i at (100 + 25 i, 100 + 25 i); a save with no edit
\* since writes an empty list.
C5_OpenWithoutFileDefaults ==
    /\ (last.op = "open" /\ last.err = "none" /\ pts[folder].kind = "absent") =>
          /\ Len(stack.files) = Len(dir[folder])
          /\ Len(dir[folder]) >= 1
          /\ DOMAIN stack.rois = 0..(Len(dir[folder]) - 1)
          /\ \A z \in DOMAIN stack.rois :
                /\ DOMAIN stack.rois[z] = 0..1
                /\ \A i \in 0..1 :
                      stack.rois[z][i] =
                          [pos |-> <<100 + 25 * i, 100 + 25 * i>>, shown |-> FALSE]
    /\ (last.op = "save" /\ last.err = "none" /\ loaded.on /\ loaded.kind = "absent") =>
          pts[fn_rois] = [kind |-> "rois", rois |-> <<>>]

\* Folder A, of MaxFiles frames and no ap.points, was opened and saved.
C5_Witness ==
    /\ last.op = "save" /\ last.err = "none"
    /\ loaded.on /\ loaded.kind = "absent"
    /\ fn_rois = "A" /\ Len(stack.files) = MaxFiles
    /\ pts["A"] = File(<<>>)

\* The numbers of a listing are 0, 1, ..., N-1, each once.
ExactlyZeroToN(l) ==
    \A n \in 0..(Len(l) - 1) : Cardinality({k \in 1..Len(l) : l[k] = n}) = 1

\* C6: an open of a folder whose plain-frame numbers are not exactly
\* 0, 1, ..., N-1 ends with the consistency error and makes no stack.
C6_OpenRejectsMisnumbered ==
    [][\A f \in Folders :
          (Open(f) /\ ~ExactlyZeroToN(dir[f])) =>
              (last'.err = "AssertionError" /\ stack' = stack)]_vars

\* The open of a folder holding 0.png and 2.png has failed, no stack exists.
C6_Witness ==
    /\ last.op = "open" /\ last.err = "AssertionError"
    /\ dir[folder] = <<0, 2>>
    /\ ~HasStack


\* C11: a left click, a right click and the keys 1, 2 and Q change the
\* annotations of the current frame only: position and shown flag of both
\* points of every other frame are what they were, whatever frame changes
\* came before.
OtherFramesKept ==
    \A z \in 0..(Len(stack.files) - 1) :
        z # stack.curId => stack'.rois[z] = stack.rois[z]

C11_EditsStayOnCurrentFrame ==
    [][((\E xy \in ClickPos : LeftClick(xy) \/ RightClick(xy))
            \/ Key1 \/ Key2 \/ KeyQ)
        => (stack'.curId = stack.curId /\ OtherFramesKept)]_vars

\* A click on the second frame while the first frame holds a visible point
\* away from the default position.
C11_Witness ==
    /\ HasStack
    /\ last.op \in {"left", "right", "1", "2", "Q"}
    /\ stack.curId = 1
    /\ \E i \in 0..1 : CurFrame[i].shown /\ CurFrame[i].pos \in ClickPos
    /\ \E i \in 0..1 : /\ stack.rois[0][i].shown
                       /\ stack.rois[0][i].pos # DefaultPos(i)


\* C12: a frame change (key D, key A, middle click, slider) leaves the
\* transient view state as it was: the zoom/pan rectangle and the levels
\* after changeZ are the ones captured before the frame index changed, while
\* the image and the displayed annotations are those of the new frame.
FrameChange ==
    MiddleClick \/ KeyD \/ KeyA \/ (\E v \in 0..(NFrames - 1) : SliderMove(v))

C12_FrameChangeKeepsView ==
    [][FrameChange =>
        /\ stack'.view = stack.view
        /\ stack'.levels = stack.levels
        /\ stack'.im = stack'.files[stack'.curId + 1]
        /\ \A i \in 0..1 :
              /\ stack'.inScene[i] = stack'.rois[stack'.curId][i].shown
              /\ stack'.realPos[i] = stack'.rois[stack'.curId][i].pos]_vars

\* The slider has just moved to the second frame, away from a frame with a
\* visible point, under a zoom and levels the user had set.
C12_Witness ==
    /\ HasStack
    /\ last.op = "slider"
    /\ stack.curId = 1
    /\ stack.im.num = 1
    /\ stack.view.kind = "user"
    /\ stack.levels.kind = "user"
    /\ stack.rois[0][0].shown
    /\ ~stack.inScene[0]


\* C13: save, open the stack's folder again, save again with no edit in
\* between: the second save writes the same set of (z, id, pos) entries as
\* the first.
C13_SaveReopenSaveSameSet ==
    [][(Save /\ snap.stage = "reopened")
        => Triples(pts'[fn_rois].rois) = Triples(snap.entries)]_vars


\* C14: a click that sets one point leaves the other point of the current
\* frame as it was: a right click changes neither the shown flag nor the
\* position of point 0, a left click neither of point 1, whatever the
\* checkboxes were.
C14_ClickKeepsOtherPoint ==
    [][\A xy \in ClickPos :
        /\ RightClick(xy) => stack'.rois[stack'.curId][0] = CurFrame[0]
        /\ LeftClick(xy) => stack'.rois[stack'.curId][1] = CurFrame[1]]_vars

\* C15: with a stack open, between events, the three views of each point
\* agree: its checkbox is checked exactly if its shown flag on the current
\* frame is true, exactly if its crosshair is in the scene; so save, which
\* writes the points whose flag is true, writes no point whose checkbox is
\* unchecked.
C15_CheckboxFlagSceneAgree ==
    HasStack =>
        /\ \A i \in 0..1 :
              /\ Box(stack, i) = CurFrame[i].shown
              /\ stack.inScene[i] = CurFrame[i].shown
        /\ (last.op = "save" /\ last.err = "none") =>
              \A k \in 1..Len(pts[fn_rois].rois) :
                  LET e == pts[fn_rois].rois[k]
                  IN  e.z = stack.curId => Box(stack, e.id)


\* C16: an open that fails changes nothing: the active stack, the frame list
\* and the path save writes to stay those of the folder opened before, so a
\* later save writes into the stack's own folder and leaves ap.points of the
\* folder whose open failed as it was.
C16_FailedOpenChangesNothing ==
    [][/\ \A f \in Folders :
            (Open(f) /\ last'.err # "none")
                => /\ stack' = stack
                   /\ files' = files
                   /\ fn_rois' = fn_rois
       /\ (Save /\ HasStack)
            => \A f \in Folders :
                  f # stack.files[1].folder => pts'[f] = pts[f]]_vars


\* C17: with N frames open the current frame index is one of 0..N-1 (and is
\* the slider's value) after every sequence of events; key D and the middle
\* click on frame N-1, and key A on frame 0, leave the index, the displayed
\* annotations and the stored annotations as they were.
AtLastFrame == stack.curId = Len(stack.files) - 1

C17_IndexStaysInRange ==
    /\ [](HasStack => /\ stack.curId \in 0..(Len(stack.files) - 1)
                      /\ stack.z = stack.curId
                      /\ stack.zmax = Len(stack.files) - 1)
    /\ [][(((KeyD \/ MiddleClick) /\ AtLastFrame) \/ (KeyA /\ stack.curId = 0))
            => stack' = stack]_vars

\* Key D has just been pressed on the last of two frames, where a point had
\* been set since the frame was entered.
C17_Witness ==
    /\ HasStack
    /\ Len(stack.files) = 2
    /\ last.op = "D"
    /\ AtLastFrame
    /\ trip.stage = "none"
    /\ \E i \in 0..1 : CurFrame[i].shown /\ stack.inScene[i]

====
